---- MODULE Spec2Model ----
(***************************************************************************)
(* K-means command-line program (HW1/.../kmeans.py).                       *)
(*                                                                         *)
(* The program is modelled as one sequential process: main() checks the    *)
(* arguments, read_input() consumes stdin line by line, the range checks   *)
(* run, kmeans() iterates assign -> update -> convergence check, and       *)
(* print_centroids() writes the result.                                    *)
(*                                                                         *)
(* Text (argv tokens, stdin lines, output lines) is a sequence of          *)
(* one-character strings.  Numbers are exact rationals <<num, den>> in     *)
(* lowest terms with den > 0; the rounding of IEEE doubles is not          *)
(* modelled.  A Euclidean distance is represented by its square, which     *)
(* orders distances exactly as the square root does.  Python's 0-based     *)
(* indices are 1-based here.  Optional values (None) are <<>>, a present   *)
(* value v is <<v>>.                                                       *)
(***************************************************************************)
EXTENDS Integers, Sequences, FiniteSets, TLC

(* ------------------------------ bounds --------------------------------- *)
\* Largest number of one-dimensional points in an enumerated input stream.
MaxN == 4
\* Enumerated coordinates are the integers 0..MaxCoord.
MaxCoord == 2
\* Enumerated argument tokens are all texts of at most MaxTokLen characters.
MaxTokLen == 2

(* ------------------------------- text ---------------------------------- *)
Digits == <<"0", "1", "2", "3", "4", "5", "6", "7", "8", "9">>

DigitSet == {Digits[i] : i \in 1..10}

Whitespace == {" ", "\t"}

DigitVal(c) == (CHOOSE i \in 1..10 : Digits[i] = c) - 1

AllDigits(s) == \A i \in 1..Len(s) : s[i] \in DigitSet

RECURSIVE LStrip(_)
LStrip(s) == IF s # <<>> /\ Head(s) \in Whitespace THEN LStrip(Tail(s)) ELSE s

RECURSIVE RStrip(_)
RStrip(s) ==
  IF s # <<>> /\ s[Len(s)] \in Whitespace
  THEN RStrip(SubSeq(s, 1, Len(s) - 1))
  ELSE s

\* str.strip()
Strip(s) == RStrip(LStrip(s))

\* str.split(','): the fields between the commas, empty fields included.
RECURSIVE SplitFrom(_, _, _)
SplitFrom(s, i, cur) ==
  IF i > Len(s) THEN <<cur>>
  ELSE IF s[i] = "," THEN <<cur>> \o SplitFrom(s, i + 1, <<>>)
  ELSE SplitFrom(s, i + 1, Append(cur, s[i]))

Split(s) == SplitFrom(s, 1, <<>>)

\* Value of a non-empty run of decimal digits.
RECURSIVE DigitsValue(_)
DigitsValue(s) ==
  IF s = <<>> THEN 0
  ELSE 10 * DigitsValue(SubSeq(s, 1, Len(s) - 1)) + DigitVal(s[Len(s)])

RECURSIVE Pow10(_)
Pow10(n) == IF n = 0 THEN 1 ELSE 10 * Pow10(n - 1)

HasSign(t) == t # <<>> /\ Head(t) \in {"+", "-"}

Unsigned(t) == IF HasSign(t) THEN Tail(t) ELSE t

SignOf(t) == IF t # <<>> /\ Head(t) = "-" THEN -1 ELSE 1

\* int(s): surrounding whitespace, an optional sign, then decimal digits.
\* <<>> stands for ValueError.
PyInt(s) ==
  LET t == Strip(s)
      body == Unsigned(t)
  IN IF body # <<>> /\ AllDigits(body)
     THEN <<SignOf(t) * DigitsValue(body)>>
     ELSE <<>>

RECURSIVE NatStr(_)
NatStr(n) ==
  IF n < 10 THEN <<Digits[n + 1]>>
  ELSE Append(NatStr(n \div 10), Digits[(n % 10) + 1])

\* str(num) of an int
PyStr(n) == IF n < 0 THEN <<"-">> \o NatStr(-n) ELSE NatStr(n)

\* Mutant of parse_int_strict: the round-trip comparison is dropped.
parse_int_loose(s) == IF s = <<>> THEN <<>> ELSE PyInt(s)

parse_int_strict(s) ==
  IF s = <<>> THEN <<>>
  ELSE LET num == PyInt(s)
       IN IF num = <<>> THEN <<>>
          ELSE IF PyStr(num[1]) = s THEN num ELSE <<>>

(* ---------------------------- rationals -------------------------------- *)
Abs(n) == IF n < 0 THEN -n ELSE n

RECURSIVE Gcd(_, _)
Gcd(a, b) == IF b = 0 THEN a ELSE Gcd(b, a % b)

Lcm(a, b) == (a \div Gcd(a, b)) * b

Norm(n, d) ==
  LET g == Gcd(Abs(n), d)
  IN <<n \div g, d \div g>>

Zero == <<0, 1>>

\* float('inf'), used only as the initial min_distance
Inf == <<1, 0>>

RAdd(a, b) ==
  LET l == Lcm(a[2], b[2])
  IN Norm(a[1] * (l \div a[2]) + b[1] * (l \div b[2]), l)

RSub(a, b) == RAdd(a, <<-b[1], b[2]>>)

RMul(a, b) == Norm(a[1] * b[1], a[2] * b[2])

\* a / n for an integer n > 0
RDivInt(a, n) == Norm(a[1], a[2] * n)

RLess(a, b) ==
  IF b = Inf THEN a # Inf
  ELSE IF a = Inf THEN FALSE
  ELSE LET l == Lcm(a[2], b[2])
       IN a[1] * (l \div a[2]) < b[1] * (l \div b[2])

\* float(s): surrounding whitespace, an optional sign, digits with at most
\* one decimal point and at least one digit.  <<>> stands for ValueError.
\* Exponents, "inf", "nan" and digit-group underscores are not in the
\* alphabet of the enumerated streams.
DotAt(body) == {i \in 1..Len(body) : body[i] = "."}

PyFloat(s) ==
  LET t == Strip(s)
      body == Unsigned(t)
      dots == DotAt(body)
  IN IF dots = {}
     THEN IF body # <<>> /\ AllDigits(body)
          THEN <<Norm(SignOf(t) * DigitsValue(body), 1)>>
          ELSE <<>>
     ELSE IF Cardinality(dots) = 1
     THEN LET p == CHOOSE i \in dots : TRUE
              ip == SubSeq(body, 1, p - 1)
              fp == SubSeq(body, p + 1, Len(body))
          IN IF Len(body) > 1 /\ AllDigits(ip) /\ AllDigits(fp)
             THEN <<Norm(SignOf(t) * (DigitsValue(ip) * Pow10(Len(fp)) + DigitsValue(fp)),
                         Pow10(Len(fp)))>>
             ELSE <<>>
     ELSE <<>>

\* '%.4f' % val: the value rounded to 4 decimals (ties to even), rendered
\* as sign, integer digits, point, four fraction digits.
Round4(r) ==
  LET n == Abs(r[1]) * 10000
      q == n \div r[2]
      rem2 == 2 * (n % r[2])
  IN IF rem2 > r[2] \/ (rem2 = r[2] /\ q % 2 = 1) THEN q + 1 ELSE q

Format4(r) ==
  LET q == Round4(r)
      f == q % 10000
  IN (IF r[1] < 0 THEN <<"-">> ELSE <<>>)
     \o NatStr(q \div 10000) \o <<".">>
     \o <<Digits[(f \div 1000) + 1], Digits[((f \div 100) % 10) + 1],
          Digits[((f \div 10) % 10) + 1], Digits[(f % 10) + 1]>>

(* ---------------------------- clustering ------------------------------- *)
\* euclidean_distance before the final square root: sum of squared
\* coordinate differences over range(len(point1)).
RECURSIVE distance_squared_from(_, _, _)
distance_squared_from(point1, point2, i) ==
  IF i > Len(point1) THEN Zero
  ELSE LET diff == RSub(point1[i], point2[i])
       IN RAdd(RMul(diff, diff), distance_squared_from(point1, point2, i + 1))

euclidean_distance(point1, point2) == distance_squared_from(point1, point2, 1)

\* Mutant of closer: an equal distance replaces the current best.
closer_or_equal(distance, min_distance) == ~RLess(min_distance, distance)

\* distance < min_distance
closer(distance, min_distance) == RLess(distance, min_distance)

\* Inner loop of assign_to_clusters over the centroid indices kk..k.
RECURSIVE closest_from(_, _, _, _, _)
closest_from(point, cs, kk, min_distance, closest_cluster) ==
  IF kk > Len(cs) THEN closest_cluster
  ELSE LET distance == euclidean_distance(point, cs[kk])
       IN IF closer(distance, min_distance)
          THEN closest_from(point, cs, kk + 1, distance, kk)
          ELSE closest_from(point, cs, kk + 1, min_distance, closest_cluster)

closest(point, cs) == closest_from(point, cs, 1, Inf, 1)

\* Outer loop of assign_to_clusters: the points n.. appended in input order.
RECURSIVE assign_from(_, _, _, _)
assign_from(points, cs, n, acc) ==
  IF n > Len(points) THEN acc
  ELSE LET c == closest(points[n], cs)
       IN assign_from(points, cs, n + 1,
                      [acc EXCEPT ![c] = Append(acc[c], points[n])])

assign_to_clusters(points, cs) ==
  assign_from(points, cs, 1, [c \in 1..Len(cs) |-> <<>>])

\* centroid[i] += point[i] over the points of one cluster
RECURSIVE coordinate_sum(_, _, _)
coordinate_sum(cluster, i, n) ==
  IF n > Len(cluster) THEN Zero
  ELSE RAdd(cluster[n][i], coordinate_sum(cluster, i, n + 1))

\* Mutant of cluster_centroid: the first point of a cluster is left out of
\* the sum.
cluster_centroid_skip_first(cluster, dim) ==
  IF Len(cluster) = 0 THEN [i \in 1..dim |-> Zero]
  ELSE [i \in 1..dim |-> RDivInt(coordinate_sum(cluster, i, 2), Len(cluster))]

\* Mutant of cluster_centroid: the sum is not divided by the cluster size.
cluster_centroid_sum(cluster, dim) ==
  IF Len(cluster) = 0 THEN [i \in 1..dim |-> Zero]
  ELSE [i \in 1..dim |-> coordinate_sum(cluster, i, 1)]

cluster_centroid(cluster, dim) ==
  IF Len(cluster) = 0 THEN [i \in 1..dim |-> Zero]
  ELSE [i \in 1..dim |-> RDivInt(coordinate_sum(cluster, i, 1), Len(cluster))]

update_centroids(cls, dim) ==
  [c \in 1..Len(cls) |-> cluster_centroid(cls[c], dim)]

\* epsilon = 0.001, squared
EpsilonSquared == <<1, 1000000>>

\* Mutant of has_converged: one centroid below epsilon is enough.
has_converged_any(old_centroids, cand_centroids) ==
  \E i \in 1..Len(old_centroids) :
    RLess(euclidean_distance(old_centroids[i], cand_centroids[i]), EpsilonSquared)

has_converged(old_centroids, cand_centroids) ==
  \A i \in 1..Len(old_centroids) :
    RLess(euclidean_distance(old_centroids[i], cand_centroids[i]), EpsilonSquared)

\* Mutant of initial_centroids: one seed too few.
initial_centroids_short(points, kk) == [i \in 1..(kk - 1) |-> points[i]]

\* centroids = [datapoints[i][:] for i in range(k)]
initial_centroids(points, kk) == [i \in 1..kk |-> points[i]]

\* print_centroids: one line per centroid, '%.4f' values joined by commas.
RECURSIVE join_from(_, _)
join_from(centroid, i) ==
  IF i > Len(centroid) THEN <<>>
  ELSE (IF i > 1 THEN <<",">> ELSE <<>>) \o Format4(centroid[i])
       \o join_from(centroid, i + 1)

centroid_line(centroid) ==
  [kind |-> "centroid", msg |-> "", text |-> join_from(centroid, 1)]

print_centroids(cs) == [i \in 1..Len(cs) |-> centroid_line(cs[i])]

(* ------------------------------ inputs --------------------------------- *)
\* sys.argv[0]
Prog == <<"k", "m">>

TokChars == {"0", "1", "2", "-", "+", ".", "x", " "}

RECURSIVE TextsUpTo(_)
TextsUpTo(n) ==
  IF n = 0 THEN {<<>>}
  ELSE LET shorter == TextsUpTo(n - 1)
       IN shorter \cup {Append(t, c) : t \in shorter, c \in TokChars}

\* Argument tokens used by the tester, beyond the enumerated short texts.
TesterTokens ==
  { <<"3">>, <<"4">>, <<"5">>, <<"a", "b", "c">>, <<"2", ".", "5">>,
    <<"-", "5", "0">>, <<"5", "0">>, <<"1", "0", "0", ".", "5">>,
    <<"1", "0", "0", "a">>, <<"4", "0", "0">>, <<"6", "0", "0">>,
    <<"7", "9", "9">>, <<"8", "0", "0">>, <<"8", "0", "1">> }

Tokens == TextsUpTo(MaxTokLen) \cup TesterTokens

KeyK == {<<"1">>, <<"2">>, <<"4">>}

KeyM == {<<"1">>, <<"2">>, <<"a", "b", "c">>}

\* Every token as k, and as max_iter next to a few k, and the other way round.
ArgvSet ==
  {<<Prog, t>> : t \in Tokens}
  \cup {<<Prog, kt, t>> : kt \in KeyK, t \in Tokens}
  \cup {<<Prog, t, mt>> : t \in Tokens, mt \in KeyM}

\* The argument lists of the tester.
TesterArgv ==
  { <<Prog>>,
    <<Prog, <<"a", "b", "c">>>>, <<Prog, <<"2", ".", "5">>>>,
    <<Prog, <<"-", "1">>>>, <<Prog, <<"0">>>>, <<Prog, <<"1">>>>,
    <<Prog, <<"2">>>>, <<Prog, <<"3">>>>, <<Prog, <<"4">>>>,
    <<Prog, <<"2", "x">>>>,
    <<Prog, <<"2">>, <<"a", "b", "c">>>>, <<Prog, <<"2">>, <<"0">>>>,
    <<Prog, <<"2">>, <<"-", "5", "0">>>>, <<Prog, <<"2">>, <<"5", "0">>>>,
    <<Prog, <<"2">>, <<"1", "0", "0", ".", "5">>>>,
    <<Prog, <<"2">>, <<"1", "0", "0", "a">>>>,
    <<Prog, <<"3">>, <<"6", "0", "0">>>>,
    <<Prog, <<"1">>, <<"a", "b", "c">>>>,
    <<Prog, <<"2">>, <<"1", "0", "0">>, <<"x">>>> }

\* Arguments that pass the format checks, with k = 2 or 3 and max_iter
\* omitted, 2 or 3.
ValidArgv ==
  {<<Prog, kt>> : kt \in {<<"2">>, <<"3">>}}
  \cup {<<Prog, kt, mt>> : kt \in {<<"2">>, <<"3">>}, mt \in {<<"2">>, <<"3">>}}

ValidArgv2 == {a \in ValidArgv : a[2] = <<"2">>}

\* A coordinate as the tester writes it: "1.0"
Lit(n) == PyStr(n) \o <<".", "0">>

RECURSIVE JoinFields(_, _)
JoinFields(fields, i) ==
  IF i > Len(fields) THEN <<>>
  ELSE (IF i > 1 THEN <<",">> ELSE <<>>) \o fields[i] \o JoinFields(fields, i + 1)

Row(fields) == JoinFields(fields, 1)

\* Every stream of n points of dimension d with coordinates 0..MaxCoord.
GridStreamsOf(n, d) ==
  {[i \in 1..n |-> Row([j \in 1..d |-> Lit(pts[i][j])])] :
     pts \in [1..n -> [1..d -> 0..MaxCoord]]}

\* One-dimensional streams of up to MaxN points.
GridStreams == UNION {GridStreamsOf(n, 1) : n \in 0..MaxN}

\* Two-dimensional streams of three points with coordinates 0..MaxCoord-1.
GridStreams2 ==
  {[i \in 1..3 |-> Row([j \in 1..2 |-> Lit(pts[i][j])])] :
     pts \in [1..3 -> [1..2 -> 0..(MaxCoord - 1)]]}

ExampleStream ==
  << Row(<<Lit(1), Lit(0)>>), Row(<<Lit(2), Lit(0)>>),
     Row(<<Lit(10), Lit(0)>>), Row(<<Lit(11), Lit(0)>>) >>

JaggedStream ==
  << Row(<<Lit(1), Lit(2), Lit(3)>>), Row(<<Lit(1), Lit(2)>>),
     Row(<<Lit(4), Lit(5), Lit(6)>>) >>

BlankStream == << <<>>, <<" ", "\t">> >>

ThreePointStream ==
  << Row(<<<<"1">>, <<"0">>>>), Row(<<<<"2">>, <<"0">>>>), Row(<<<<"3">>, <<"0">>>>) >>

\* Streams paired with every argument list.
ArgStreams == {<<>>, BlankStream, ThreePointStream, ExampleStream}

\* Streams of the tester and streams with coordinates finer than epsilon.
KeyStreams ==
  { <<>>,
    BlankStream,
    << Row(<<Lit(1)>>) >>,
    << Row(<<<<"1">>, <<"2">>>>), Row(<<<<"3">>, <<"4">>>>) >>,
    ThreePointStream,
    ExampleStream,
    << <<" ">> \o Lit(1) \o <<" ", ",", " ">> \o Lit(0) \o <<" ">>, <<>>,
       <<"\t">> \o Lit(2) \o <<",", " ">> \o Lit(0) \o <<"\t">>, <<" ">>,
       <<" ", " ">> \o Lit(3) \o <<",">> \o Lit(0) >>,
    JaggedStream,
    << Row(<<Lit(1), Lit(2), Lit(3)>>), Row(<<Lit(1), <<"2", "a">>, Lit(3)>>),
       Row(<<Lit(4), Lit(5), Lit(6)>>) >>,
    << Row(<<Lit(1), Lit(2), Lit(3)>>), Row(<<Lit(1), <<>>, Lit(3)>>),
       Row(<<Lit(4), Lit(5), Lit(6)>>) >>,
    << Row(<<Lit(1), Lit(2), Lit(3)>>), Row(<<Lit(1), Lit(2), Lit(3), <<>>>>),
       Row(<<Lit(4), Lit(5), Lit(6)>>) >>,
    << <<"0", ".", "0", "0", "0">>, <<"0", ".", "0", "0", "4">>,
       <<"0", ".", "0", "0", "2">>, <<"-", "0", ".", "0", "0", "3">> >>,
    << <<"0", ".", "5">>, <<"-", ".", "5">>, <<"2", ".">>, <<"+", "1">> >> }

(* ------------------------------- state --------------------------------- *)
VARIABLES
  argv,           \* sys.argv
  stdin,          \* the lines of sys.stdin
  inPos,          \* number of lines of sys.stdin consumed
  pc,             \* position of main
  k,              \* main: k
  max_iter,       \* main: max_iter
  datapoints,     \* read_input / main: datapoints
  dimension,      \* read_input: dimension (None until the first point)
  centroids,      \* kmeans: centroids
  new_centroids,  \* kmeans: new_centroids
  clusters,       \* kmeans: clusters
  iteration,      \* kmeans: number of loop iterations completed
  stop,           \* kmeans: why the loop ended
  stdout,         \* lines printed
  exitCode        \* process exit status, -1 while running

vars ==
  <<argv, stdin, inPos, pc, k, max_iter, datapoints, dimension, centroids,
    new_centroids, clusters, iteration, stop, stdout, exitCode>>

MSG_ERR_GENERIC == "An Error Has Occurred"

MSG_ERR_K == "Incorrect number of clusters!"

MSG_ERR_ITER == "Incorrect maximum iteration!"

DefaultMaxIter == 400

MaxIterLimit == 800

error_line(m) == [kind |-> "error", msg |-> m, text |-> <<>>]

\* Mutant of Fail: the message is printed but the status is 0.
Fail_status0(m) ==
  /\ stdout' = Append(stdout, error_line(m))
  /\ exitCode' = 0
  /\ pc' = "exit"

\* print(message); sys.exit(1)
Fail(m) ==
  /\ stdout' = Append(stdout, error_line(m))
  /\ exitCode' = 1
  /\ pc' = "exit"

Init ==
  /\ \/ argv \in ArgvSet /\ stdin \in ArgStreams
     \/ argv \in TesterArgv /\ stdin \in KeyStreams
     \/ argv \in ValidArgv /\ stdin \in GridStreams
     \/ argv \in ValidArgv2 /\ stdin \in GridStreams2
  /\ inPos = 0
  /\ pc = "main"
  /\ k = <<>>
  /\ max_iter = <<>>
  /\ datapoints = <<>>
  /\ dimension = <<>>
  /\ centroids = <<>>
  /\ new_centroids = <<>>
  /\ clusters = <<>>
  /\ iteration = 0
  /\ stop = "none"
  /\ stdout = <<>>
  /\ exitCode = -1

(* ------------------------------- main ---------------------------------- *)
kmeans_vars == <<centroids, new_centroids, clusters, iteration, stop>>

\* if len(sys.argv) < 2 or len(sys.argv) > 3
CheckArgs ==
  /\ pc = "main"
  /\ IF Len(argv) < 2 \/ Len(argv) > 3
     THEN Fail(MSG_ERR_GENERIC)
     ELSE pc' = "parse_k" /\ UNCHANGED <<stdout, exitCode>>
  /\ UNCHANGED <<argv, stdin, inPos, k, max_iter, datapoints, dimension, kmeans_vars>>

\* k = parse_int_strict(sys.argv[1])
ParseK ==
  /\ pc = "parse_k"
  /\ k' = parse_int_strict(argv[2])
  /\ IF k' = <<>>
     THEN Fail(MSG_ERR_K)
     ELSE pc' = "parse_iter" /\ UNCHANGED <<stdout, exitCode>>
  /\ UNCHANGED <<argv, stdin, inPos, max_iter, datapoints, dimension, kmeans_vars>>

\* max_iter = 400, replaced by parse_int_strict(sys.argv[2]) when given
ParseMaxIter ==
  /\ pc = "parse_iter"
  /\ max_iter' = IF Len(argv) = 3 THEN parse_int_strict(argv[3])
                 ELSE <<DefaultMaxIter>>
  /\ IF max_iter' = <<>>
     THEN Fail(MSG_ERR_ITER)
     ELSE pc' = "read" /\ UNCHANGED <<stdout, exitCode>>
  /\ UNCHANGED <<argv, stdin, inPos, k, datapoints, dimension, kmeans_vars>>

\* A field of a line is rejected when it is empty after strip() or when
\* float() raises ValueError.
bad_field(val_str) == Strip(val_str) = <<>> \/ PyFloat(Strip(val_str)) = <<>>

\* Mutant of dimension_mismatch: the dimension of a line is never compared.
dimension_unchecked(dim, point) == FALSE

\* elif len(point) != dimension
dimension_mismatch(dim, point) == dim # <<>> /\ Len(point) # dim[1]

\* One iteration of "for line in sys.stdin" in read_input.
ReadLine ==
  /\ pc = "read"
  /\ inPos < Len(stdin)
  /\ inPos' = inPos + 1
  /\ LET line == Strip(stdin[inPos + 1])
         values == Split(line)
         point == [i \in 1..Len(values) |-> PyFloat(Strip(values[i]))[1]]
     IN IF line = <<>>
        THEN UNCHANGED <<pc, datapoints, dimension, stdout, exitCode>>
        ELSE IF \E i \in 1..Len(values) : bad_field(values[i])
        THEN Fail(MSG_ERR_GENERIC) /\ UNCHANGED <<datapoints, dimension>>
        ELSE IF dimension_mismatch(dimension, point)
        THEN Fail(MSG_ERR_GENERIC) /\ UNCHANGED <<datapoints, dimension>>
        ELSE /\ dimension' = IF dimension = <<>> THEN <<Len(point)>> ELSE dimension
             /\ datapoints' = Append(datapoints, point)
             /\ UNCHANGED <<pc, stdout, exitCode>>
  /\ UNCHANGED <<argv, stdin, k, max_iter, kmeans_vars>>

\* End of sys.stdin: read_input returns datapoints.
ReadEOF ==
  /\ pc = "read"
  /\ inPos = Len(stdin)
  /\ pc' = "check_n"
  /\ UNCHANGED <<argv, stdin, inPos, k, max_iter, datapoints, dimension,
                 kmeans_vars, stdout, exitCode>>

\* Mutant of no_points: the empty-input check is missing.
no_points_unchecked(N) == FALSE

\* N == 0
no_points(N) == N = 0

CheckEmpty ==
  /\ pc = "check_n"
  /\ IF no_points(Len(datapoints))
     THEN Fail(MSG_ERR_GENERIC)
     ELSE pc' = "check_k" /\ UNCHANGED <<stdout, exitCode>>
  /\ UNCHANGED <<argv, stdin, inPos, k, max_iter, datapoints, dimension, kmeans_vars>>

\* Mutant of bad_k: k = N is let through.
bad_k_inclusive(kk, N) == kk <= 1 \/ kk > N

\* k <= 1 or k >= N
bad_k(kk, N) == kk <= 1 \/ kk >= N

\* Mutant of bad_max_iter: the upper limit itself is accepted.
bad_max_iter_inclusive(m) == m <= 1 \/ m > MaxIterLimit

\* max_iter <= 1 or max_iter >= 800
bad_max_iter(m) == m <= 1 \/ m >= MaxIterLimit

\* Mutant of CheckClusters: the range of max_iter is tested before that of k.
CheckClusters_iter_first ==
  /\ pc = "check_k"
  /\ IF bad_max_iter(max_iter[1])
     THEN Fail(MSG_ERR_ITER)
     ELSE IF bad_k(k[1], Len(datapoints))
     THEN Fail(MSG_ERR_K)
     ELSE pc' = "check_iter" /\ UNCHANGED <<stdout, exitCode>>
  /\ UNCHANGED <<argv, stdin, inPos, k, max_iter, datapoints, dimension, kmeans_vars>>

\* if k <= 1 or k >= N: print, exit
CheckClusters ==
  /\ pc = "check_k"
  /\ IF bad_k(k[1], Len(datapoints))
     THEN Fail(MSG_ERR_K)
     ELSE pc' = "check_iter" /\ UNCHANGED <<stdout, exitCode>>
  /\ UNCHANGED <<argv, stdin, inPos, k, max_iter, datapoints, dimension, kmeans_vars>>

CheckIterations ==
  /\ pc = "check_iter"
  /\ IF bad_max_iter(max_iter[1])
     THEN Fail(MSG_ERR_ITER)
     ELSE pc' = "kmeans" /\ UNCHANGED <<stdout, exitCode>>
  /\ UNCHANGED <<argv, stdin, inPos, k, max_iter, datapoints, dimension, kmeans_vars>>

(* ------------------------------ kmeans --------------------------------- *)
main_vars == <<argv, stdin, inPos, k, max_iter, datapoints, dimension>>

\* dimension = len(datapoints[0])
kmeans_dimension == Len(datapoints[1])

\* Mutant of loop_continues: the loop runs one pass more than range(max_iter).
loop_continues_inclusive(done, m) == done <= m

\* for iteration in range(max_iter): another pass follows `done` passes
loop_continues(done, m) == done < m

\* Entry of kmeans: the seeds, then the head of "for iteration in range(max_iter)".
KmeansInit ==
  /\ pc = "kmeans"
  /\ centroids' = initial_centroids(datapoints, k[1])
  /\ iteration' = 0
  /\ pc' = IF loop_continues(0, max_iter[1]) THEN "assign" ELSE "return"
  /\ stop' = IF loop_continues(0, max_iter[1]) THEN stop ELSE "max_iter"
  /\ UNCHANGED <<main_vars, new_centroids, clusters, stdout, exitCode>>

\* clusters = assign_to_clusters(datapoints, centroids)
Assign ==
  /\ pc = "assign"
  /\ clusters' = assign_to_clusters(datapoints, centroids)
  /\ pc' = "update"
  /\ UNCHANGED <<main_vars, centroids, new_centroids, iteration, stop, stdout, exitCode>>

\* new_centroids = update_centroids(clusters, dimension)
Update ==
  /\ pc = "update"
  /\ new_centroids' = update_centroids(clusters, kmeans_dimension)
  /\ pc' = "converge"
  /\ UNCHANGED <<main_vars, centroids, clusters, iteration, stop, stdout, exitCode>>

\* Mutant of adopted: on convergence the candidates are dropped.
adopted_unless_converged(old_centroids, cand_centroids) ==
  IF has_converged(old_centroids, cand_centroids) THEN old_centroids
  ELSE cand_centroids

\* centroids = new_centroids, on both branches of the convergence test
adopted(old_centroids, cand_centroids) == cand_centroids

\* if has_converged(centroids, new_centroids): ... break, else the next
\* pass of the for loop or its end.
Converge ==
  /\ pc = "converge"
  /\ centroids' = adopted(centroids, new_centroids)
  /\ iteration' = iteration + 1
  /\ IF has_converged(centroids, new_centroids)
     THEN pc' = "return" /\ stop' = "converged"
     ELSE IF loop_continues(iteration + 1, max_iter[1])
     THEN pc' = "assign" /\ UNCHANGED stop
     ELSE pc' = "return" /\ stop' = "max_iter"
  /\ UNCHANGED <<main_vars, new_centroids, clusters, stdout, exitCode>>

\* return centroids; print_centroids(centroids); main returns normally.
PrintCentroids ==
  /\ pc = "return"
  /\ stdout' = stdout \o print_centroids(centroids)
  /\ exitCode' = 0
  /\ pc' = "exit"
  /\ UNCHANGED <<main_vars, kmeans_vars>>

Next ==
  \/ CheckArgs
  \/ ParseK
  \/ ParseMaxIter
  \/ ReadLine
  \/ ReadEOF
  \/ CheckEmpty
  \/ CheckClusters
  \/ CheckIterations
  \/ KmeansInit
  \/ Assign
  \/ Update
  \/ Converge
  \/ PrintCentroids

Spec == Init /\ [][Next]_vars

TypeOK ==
  /\ pc \in {"main", "parse_k", "parse_iter", "read", "check_n", "check_k",
             "check_iter", "kmeans", "assign", "update", "converge", "return",
             "exit"}
  /\ exitCode \in {-1, 0, 1}
  /\ inPos \in 0..Len(stdin)
  /\ stop \in {"none", "converged", "max_iter"}

(* --------------------- definitions used by the claims ------------------ *)
Running == pc # "exit"

InKmeans == pc \in {"assign", "update", "converge", "return"}

Succeeded == pc = "exit" /\ exitCode = 0

ZeroVector(d) == [i \in 1..d |-> Zero]

\* The lowest index among the centroids at minimal distance from p.
NearestIndex(p, cs) ==
  LET d == [j \in 1..Len(cs) |-> euclidean_distance(p, cs[j])]
  IN CHOOSE c \in 1..Len(cs) :
       /\ \A j \in 1..Len(cs) : ~RLess(d[j], d[c])
       /\ \A j \in 1..(c - 1) : RLess(d[c], d[j])

\* The points n.. whose nearest centroid (idx) is c, in input order.
RECURSIVE PickFrom(_, _, _, _)
PickFrom(points, idx, c, n) ==
  IF n > Len(points) THEN <<>>
  ELSE (IF idx[n] = c THEN <<points[n]>> ELSE <<>>) \o PickFrom(points, idx, c, n + 1)

\* The groups of the points by nearest centroid.
GroupsOf(points, cs) ==
  LET idx == [n \in 1..Len(points) |-> NearestIndex(points[n], cs)]
  IN [c \in 1..Len(cs) |-> PickFrom(points, idx, c, 1)]

RECURSIVE SumOf(_, _)
SumOf(group, i) ==
  IF group = <<>> THEN Zero
  ELSE RAdd(SumOf(SubSeq(group, 1, Len(group) - 1), i), group[Len(group)][i])

\* x is the arithmetic mean of coordinate i over a non-empty group.
IsMean(x, group, i) == RMul(x, <<Len(group), 1>>) = SumOf(group, i)

\* The centroids one more assignment step and update step produce from cs.
MeanOf(group, d) ==
  IF group = <<>> THEN ZeroVector(d)
  ELSE [i \in 1..d |-> RDivInt(SumOf(group, i), Len(group))]

OneMoreStep(cs) ==
  LET groups == GroupsOf(datapoints, cs)
  IN [c \in 1..Len(cs) |-> MeanOf(groups[c], Len(datapoints[1]))]

WithinEpsilon(a, b) == RLess(euclidean_distance(a, b), EpsilonSquared)

(* ------------------------------- claims -------------------------------- *)
\* C1: while kmeans runs and when it has returned, centroids holds exactly
\* k entries, each of the dimension of the input points; so do the
\* candidates after an update step; right after initialisation centroid i
\* is seed point i.
C1_CentroidShape ==
  /\ (InKmeans \/ Succeeded) =>
       /\ Len(centroids) = k[1]
       /\ \A i \in 1..Len(centroids) : Len(centroids[i]) = Len(datapoints[1])
  /\ (pc = "converge") =>
       /\ Len(new_centroids) = k[1]
       /\ \A i \in 1..Len(new_centroids) :
            Len(new_centroids[i]) = Len(datapoints[1])
  /\ (pc = "assign" /\ iteration = 0) =>
       \A i \in 1..k[1] : centroids[i] = datapoints[i]

C1_Witness ==
  /\ Succeeded
  /\ k = <<3>>
  /\ Len(datapoints[1]) = 2
  /\ iteration >= 2
  /\ Len(centroids) = 3

\* C3: after the assignment step every point sits in the group of the
\* lowest-indexed centroid at minimal distance from it, groups keeping the
\* input order.
C3_NearestLowestIndex ==
  (pc = "update") =>
    clusters = GroupsOf(datapoints, centroids)

\* A point at exactly equal, minimal distance from two distinct centroids.
C3_Witness ==
  /\ pc = "update"
  /\ \E n \in 1..Len(datapoints) : \E i, j \in 1..Len(centroids) :
       /\ i < j
       /\ centroids[i] # centroids[j]
       /\ NearestIndex(datapoints[n], centroids) = i
       /\ euclidean_distance(datapoints[n], centroids[i])
            = euclidean_distance(datapoints[n], centroids[j])
       /\ \E m \in 1..Len(clusters[i]) : clusters[i][m] = datapoints[n]

\* C4: after the update step the candidate of an empty group is the
\* all-zero vector of dimension d and the candidate of a non-empty group is
\* the coordinate-wise arithmetic mean of its points.
C4_EmptyClusterZero ==
  (pc = "converge") =>
    \A c \in 1..Len(clusters) :
      IF clusters[c] = <<>>
      THEN new_centroids[c] = ZeroVector(Len(datapoints[1]))
      ELSE /\ Len(new_centroids[c]) = Len(datapoints[1])
           /\ \A i \in 1..Len(datapoints[1]) :
                IsMean(new_centroids[c][i], clusters[c], i)

\* An empty group whose centroid was not the zero vector before the update,
\* next to a group of several points.
C4_Witness ==
  /\ pc = "converge"
  /\ \E c \in 1..Len(clusters) :
       /\ clusters[c] = <<>>
       /\ centroids[c] # ZeroVector(Len(datapoints[1]))
       /\ new_centroids[c] = ZeroVector(Len(datapoints[1]))
  /\ \E c \in 1..Len(clusters) : Len(clusters[c]) >= 2


\* C2 as stated: whenever the loop stopped by convergence, one more
\* assignment step and update step from the returned centroids moves every
\* centroid by less than epsilon.
C2_FixedPointAlways ==
  (stop = "converged" /\ pc = "return") =>
    LET next == OneMoreStep(centroids)
    IN \A i \in 1..Len(centroids) : WithinEpsilon(centroids[i], next[i])

\* One more assignment step groups the points as the last executed
\* assignment step did.
SameGroups == GroupsOf(datapoints, centroids) = clusters

\* C2, amended: whenever the loop stopped by convergence and one more
\* assignment step against the returned centroids groups the points as the
\* last executed iteration did, one more update step moves every centroid
\* by less than epsilon.
C2_FixedPointSameGroups ==
  (stop = "converged" /\ pc = "return" /\ SameGroups) =>
    LET next == OneMoreStep(centroids)
    IN \A i \in 1..Len(centroids) : WithinEpsilon(centroids[i], next[i])

C2_Witness ==
  /\ stop = "converged"
  /\ pc = "return"
  /\ iteration >= 3
  /\ SameGroups
  /\ \E c \in 1..Len(clusters) : Len(clusters[c]) >= 2
  /\ OneMoreStep(centroids) = centroids

(* ---- input-level definitions of the claims about main ---- *)
NonBlankLines(s) == {i \in 1..Len(s) : Strip(s[i]) # <<>>}

\* N: the number of points the stream holds
NumPoints(s) == Cardinality(NonBlankLines(s))

FieldsOf(line) == Split(Strip(line))

WellFormedFields(fields) ==
  \A i \in 1..Len(fields) :
    Strip(fields[i]) # <<>> /\ PyFloat(Strip(fields[i])) # <<>>

\* Every non-blank line holds numeric fields only, as many as every other.
WellFormedStream(s) ==
  LET lines == NonBlankLines(s)
      fields == [i \in lines |-> FieldsOf(s[i])]
  IN /\ \A i \in lines : WellFormedFields(fields[i])
     /\ \A i, j \in lines : Len(fields[i]) = Len(fields[j])

\* The canonical decimal rendering of an integer: "0", or an optional "-"
\* followed by digits that do not start with "0".
IsCanonicalInt(tok) ==
  \/ tok = <<"0">>
  \/ /\ tok # <<>>
     /\ AllDigits(Unsigned(tok))
     /\ Unsigned(tok) # <<>>
     /\ Head(Unsigned(tok)) # "0"
     /\ Head(tok) # "+"

IntOf(tok) == SignOf(tok) * DigitsValue(Unsigned(tok))

ValidArgCount == Len(argv) \in {2, 3}

MaxIterArgOk == Len(argv) = 3 => IsCanonicalInt(argv[3])

KInRange ==
  /\ IsCanonicalInt(argv[2])
  /\ 1 < IntOf(argv[2])
  /\ IntOf(argv[2]) < NumPoints(stdin)

FailedWith(m) == pc = "exit" /\ exitCode = 1 /\ stdout = <<error_line(m)>>

\* C5 as stated: with a valid argument count and a well-formed stream of
\* N >= 0 points, a k argument outside 1 < k < N ends the run with the
\* clusters message and status 1.
C5_ClusterRuleAnyStream ==
  (pc = "exit" /\ ValidArgCount /\ ~KInRange /\ WellFormedStream(stdin)) =>
    FailedWith(MSG_ERR_K)

\* C5, amended: with a valid argument count, a max_iter argument that is
\* absent or a strict integer, and a well-formed stream of N >= 1 points,
\* a k argument outside 1 < k < N ends the run with the clusters message
\* and status 1.
C5_ClusterRule ==
  (/\ pc = "exit"
   /\ ValidArgCount
   /\ MaxIterArgOk
   /\ NumPoints(stdin) >= 1
   /\ ~KInRange
   /\ WellFormedStream(stdin)) =>
    FailedWith(MSG_ERR_K)

\* k = N, rejected by the range check after the whole stream was read.
C5_Witness ==
  /\ FailedWith(MSG_ERR_K)
  /\ k = <<3>>
  /\ Len(datapoints) = 3
  /\ inPos = Len(stdin)

\* C6: with a valid k and a well-formed stream, a strict-integer max_iter
\* argument m ends the run with the iterations message and status 1 exactly
\* when m <= 1 or m >= 800, and otherwise the run ends with status 0; the
\* driver runs with m, or with 400 when the argument is omitted.
C6_IterationRule ==
  /\ (/\ pc = "exit"
      /\ Len(argv) = 3
      /\ IsCanonicalInt(argv[3])
      /\ KInRange
      /\ WellFormedStream(stdin)) =>
       IF IntOf(argv[3]) <= 1 \/ IntOf(argv[3]) >= 800
       THEN FailedWith(MSG_ERR_ITER)
       ELSE exitCode = 0 /\ \A i \in 1..Len(stdout) : stdout[i].kind = "centroid"
  /\ ((InKmeans \/ Succeeded) /\ Len(argv) = 3) => max_iter = <<IntOf(argv[3])>>
  /\ ((InKmeans \/ Succeeded) /\ Len(argv) = 2) => max_iter = <<400>>

C6_Witness ==
  /\ Succeeded
  /\ max_iter = <<799>>
  /\ argv[3] = <<"7", "9", "9">>

\* C7: a k or max_iter token passes parse_int_strict only when it is the
\* canonical decimal rendering of an integer, whose value is then kept; any
\* other k token ends the run with the clusters
\* message, any other max_iter token given with a strict-integer k ends it
\* with the iterations message, both with status 1 and before any line of
\* the stream is read.
C7_StrictParsing ==
  /\ (pc = "parse_iter") =>
       IsCanonicalInt(argv[2]) /\ k = <<IntOf(argv[2])>>
  /\ (pc = "read" /\ inPos = 0 /\ Len(argv) = 3) =>
       IsCanonicalInt(argv[3]) /\ max_iter = <<IntOf(argv[3])>>
  /\ (pc = "exit" /\ ValidArgCount /\ ~IsCanonicalInt(argv[2])) =>
       FailedWith(MSG_ERR_K) /\ inPos = 0
  /\ (/\ pc = "exit"
      /\ Len(argv) = 3
      /\ IsCanonicalInt(argv[2])
      /\ ~IsCanonicalInt(argv[3])) =>
       FailedWith(MSG_ERR_ITER) /\ inPos = 0

C7_Witness ==
  /\ FailedWith(MSG_ERR_ITER)
  /\ argv = <<Prog, <<"2">>, <<"1", "0", "0", "a">>>>
  /\ stdin # <<>>
  /\ inPos = 0

\* C8: a run that has not ended has printed nothing; a run that ended with
\* status 1 printed exactly one line, one of the three fixed messages; a run
\* that printed a centroid line printed only centroid lines and ended with
\* status 0; a bad argument count and a malformed stream (with well-formed
\* arguments) each end the run with the generic message; kmeans is entered
\* only with the whole stream read and every check passed.
C8_OneMessageNoPartialOutput ==
  /\ Running => stdout = <<>> /\ exitCode = -1
  /\ (pc = "exit") => exitCode \in {0, 1}
  /\ (pc = "exit" /\ exitCode = 1) =>
       /\ Len(stdout) = 1
       /\ stdout[1].kind = "error"
       /\ stdout[1].msg \in {MSG_ERR_GENERIC, MSG_ERR_K, MSG_ERR_ITER}
  /\ (pc = "exit" /\ exitCode = 0) =>
       /\ k # <<>>
       /\ Len(stdout) = k[1]
       /\ \A i \in 1..Len(stdout) : stdout[i].kind = "centroid"
  /\ (pc = "exit" /\ ~ValidArgCount) => FailedWith(MSG_ERR_GENERIC)
  /\ (/\ pc = "exit"
      /\ ValidArgCount
      /\ IsCanonicalInt(argv[2])
      /\ MaxIterArgOk
      /\ ~WellFormedStream(stdin)) =>
       FailedWith(MSG_ERR_GENERIC)
  /\ (pc = "kmeans") =>
       /\ inPos = Len(stdin)
       /\ WellFormedStream(stdin)
       /\ KInRange
       /\ ~bad_max_iter(max_iter[1])

\* The stream "1.0,2.0,3.0 / 1.0,2.0 / 4.0,5.0,6.0" rejected at its second
\* line.
C8_Witness ==
  /\ FailedWith(MSG_ERR_GENERIC)
  /\ stdin = JaggedStream
  /\ inPos = 2
  /\ dimension = <<3>>
  /\ Len(datapoints) = 1

\* C9 as stated: a stream without a non-blank line and a strict-integer k
\* argument end the run with the generic message and status 1.
C9_EmptyInputAnyArgs ==
  (/\ pc = "exit"
   /\ Len(argv) >= 2
   /\ IsCanonicalInt(argv[2])
   /\ NumPoints(stdin) = 0) =>
    FailedWith(MSG_ERR_GENERIC)

\* C9, amended: a stream without a non-blank line, a strict-integer k
\* argument and a max_iter argument that is absent or a strict integer end
\* the run with the generic message and status 1.
C9_EmptyInput ==
  (/\ pc = "exit"
   /\ Len(argv) >= 2
   /\ IsCanonicalInt(argv[2])
   /\ MaxIterArgOk
   /\ NumPoints(stdin) = 0) =>
    FailedWith(MSG_ERR_GENERIC)

\* Blank lines only, all consumed, then the N == 0 check.
C9_Witness ==
  /\ FailedWith(MSG_ERR_GENERIC)
  /\ argv = <<Prog, <<"2">>>>
  /\ stdin = BlankStream
  /\ inPos = 2
  /\ datapoints = <<>>

ExampleArgv == {<<Prog, <<"2">>>>, <<Prog, <<"2">>, <<"5", "0">>>>}

\* C10: on the points (1,0), (2,0), (10,0), (11,0) with k = 2 and max_iter
\* omitted or 50 the run ends with status 0, stopped by convergence, with
\* centroid 0 = (1.5, 0) and centroid 1 = (10.5, 0), printed in that order.
C10_EndToEndExample ==
  (pc = "exit" /\ stdin = ExampleStream /\ argv \in ExampleArgv) =>
    /\ exitCode = 0
    /\ stop = "converged"
    /\ centroids = << <<<<3, 2>>, Zero>>, <<<<21, 2>>, Zero>> >>
    /\ stdout =
         << [kind |-> "centroid", msg |-> "",
             text |-> <<"1", ".", "5", "0", "0", "0", ",",
                        "0", ".", "0", "0", "0", "0">>],
            [kind |-> "centroid", msg |-> "",
             text |-> <<"1", "0", ".", "5", "0", "0", "0", ",",
                        "0", ".", "0", "0", "0", "0">>] >>

C10_Witness ==
  /\ pc = "exit"
  /\ stdin = ExampleStream
  /\ argv = <<Prog, <<"2">>, <<"5", "0">>>>
  /\ stop = "converged"
  /\ iteration = 3


(* ---- C11 ---- *)
\* The steps of the driver follow each other in the order assignment,
\* update, convergence check; the check counts the iteration, ends the loop
\* when every centroid moved by less than epsilon, and otherwise ends it
\* only when max_iter iterations are done.
C11_Step ==
  /\ (pc = "kmeans") => pc' = "assign" /\ iteration' = 0
  /\ (pc = "assign") => pc' = "update" /\ iteration' = iteration
  /\ (pc = "update") => pc' = "converge" /\ iteration' = iteration
  /\ (pc = "converge") =>
       /\ iteration' = iteration + 1
       /\ IF \A i \in 1..Len(centroids) : WithinEpsilon(centroids[i], new_centroids[i])
          THEN pc' = "return" /\ stop' = "converged"
          ELSE IF iteration' < max_iter[1]
          THEN pc' = "assign" /\ stop' = stop
          ELSE pc' = "return" /\ stop' = "max_iter"

\* The number of driver steps still allowed: three per iteration not yet
\* started, less the steps of the current iteration already taken; 0 once
\* the loop has ended.
C11_Variant ==
  CASE pc = "assign" -> 3 * (max_iter[1] - iteration)
    [] pc = "update" -> 3 * (max_iter[1] - iteration) - 1
    [] pc = "converge" -> 3 * (max_iter[1] - iteration) - 2
    [] OTHER -> 0

InLoop == pc \in {"assign", "update", "converge"}

C11_Count ==
  /\ 1 <= iteration
  /\ iteration <= max_iter[1]
  /\ stop \in {"converged", "max_iter"}
  /\ (stop = "max_iter") => iteration = max_iter[1]

\* C11: kmeans terminates: every step inside the loop (none of which waits
\* for anything but its turn) lowers a positive bound on the steps left, and
\* the step that brings the bound to 0 returns; each iteration is
\* assignment, then update, then convergence check; the loop ends right
\* after the first iteration whose check reports convergence and otherwise
\* after exactly max_iter iterations, so between 1 and max_iter iterations
\* are executed.
C11_DriverTermination ==
  [][/\ C11_Step
     /\ InLoop => C11_Variant > 0 /\ C11_Variant' < C11_Variant
     /\ (pc' = "return") => C11_Count']_vars

\* The loop ended at the cap without convergence.
C11_Witness ==
  /\ pc = "return"
  /\ stop = "max_iter"
  /\ iteration = max_iter[1]
  /\ iteration >= 2

(* ---- C12 ---- *)
\* The first k points in input order.
FirstPoints == [i \in 1..k[1] |-> datapoints[i]]

\* C12: kmeans starts from the first k points in input order; every
\* convergence check, whichever way it ends, leaves as the current centroids
\* the candidates the update step of that iteration computed from the
\* centroids the iteration started with, so at the return, by convergence or
\* at the cap, the centroids returned and printed are the last candidates
\* and not the centroids the last iteration started with; the points are
\* the same before and after every step of kmeans.
C12_ReturnsLastCandidates ==
  [][/\ (pc = "kmeans") => centroids' = FirstPoints
     /\ (pc = "converge") =>
          /\ new_centroids = OneMoreStep(centroids)
          /\ centroids' = new_centroids
          /\ new_centroids' = new_centroids
     /\ (pc' = "return") =>
          /\ stop' \in {"converged", "max_iter"}
          /\ centroids' = new_centroids'
     /\ (pc = "return") => stdout' = print_centroids(new_centroids)
     /\ (pc \in {"kmeans", "assign", "update", "converge", "return"}) =>
          datapoints' = datapoints]_vars

\* The first iteration converged with candidates that differ from the
\* centroids it started with, and the candidates were returned.
C12_Witness ==
  /\ pc = "return"
  /\ stop = "converged"
  /\ iteration = 1
  /\ centroids = new_centroids
  /\ centroids # FirstPoints

(* ---- C13 ---- *)
\* The value of the max_iter argument, 400 when it is omitted.
MaxIterArg == IF Len(argv) = 3 THEN IntOf(argv[3]) ELSE 400

\* The first check that fails, in the order argument count, k format,
\* max_iter format, input parsing, empty input, k range, max_iter range.
FirstFailure ==
  IF ~ValidArgCount THEN "argc"
  ELSE IF ~IsCanonicalInt(argv[2]) THEN "k_format"
  ELSE IF ~MaxIterArgOk THEN "max_iter_format"
  ELSE IF ~WellFormedStream(stdin) THEN "input"
  ELSE IF NumPoints(stdin) = 0 THEN "empty"
  ELSE IF IntOf(argv[2]) <= 1 \/ IntOf(argv[2]) >= NumPoints(stdin) THEN "k_range"
  ELSE IF MaxIterArg <= 1 \/ MaxIterArg >= 800 THEN "max_iter_range"
  ELSE "none"

\* The message each failing check prints.
MessageOf(check) ==
  CASE check \in {"argc", "input", "empty"} -> MSG_ERR_GENERIC
    [] check \in {"k_format", "k_range"} -> MSG_ERR_K
    [] check \in {"max_iter_format", "max_iter_range"} -> MSG_ERR_ITER

\* C13: a run that has ended printed the message of the first failing check
\* in the order argument count, k format, max_iter format, input parsing,
\* empty input, k range, max_iter range, and ended with status 0 when no
\* check fails; a run stopped by the argument count or by the format of
\* either argument has read no line of the stream.
C13_ErrorPrecedence ==
  (pc = "exit") =>
    LET first == FirstFailure
    IN /\ (first = "none") => exitCode = 0
       /\ (first # "none") => FailedWith(MessageOf(first))
       /\ (first \in {"argc", "k_format", "max_iter_format"}) => inPos = 0

\* k = 1 and max_iter = 1, both out of range, on three points: the clusters
\* message, after the whole stream was read.
C13_Witness ==
  /\ FailedWith(MSG_ERR_K)
  /\ argv = <<Prog, <<"1">>, <<"1">>>>
  /\ stdin = ThreePointStream
  /\ inPos = Len(stdin)

\* Malformed k with malformed max_iter: the clusters message.
C13_WitnessBothMalformed ==
  /\ FailedWith(MSG_ERR_K)
  /\ Len(argv) = 3
  /\ ~IsCanonicalInt(argv[2])
  /\ ~IsCanonicalInt(argv[3])

\* Out-of-range k with malformed max_iter: the iterations message.
C13_WitnessRangeThenFormat ==
  /\ FailedWith(MSG_ERR_ITER)
  /\ Len(argv) = 3
  /\ IsCanonicalInt(argv[2])
  /\ IntOf(argv[2]) <= 1
  /\ ~IsCanonicalInt(argv[3])

\* Malformed input with out-of-range k: the generic message.
C13_WitnessInputThenRange ==
  /\ FailedWith(MSG_ERR_GENERIC)
  /\ ValidArgCount
  /\ IsCanonicalInt(argv[2])
  /\ MaxIterArgOk
  /\ ~WellFormedStream(stdin)
  /\ IntOf(argv[2]) <= 1 \/ IntOf(argv[2]) >= NumPoints(stdin)

====
